---- MODULE Spec2Model ----
(***************************************************************************)
(* Model of the POST handler of src/src/app/api/sync-documents/route.ts:   *)
(* the two-phase sync run (phase 1: fetch + upload every listed blob,      *)
(* phase 2: poll processing status and add ready files to the knowledge    *)
(* collection) and the report it returns.  One action per stretch of code  *)
(* between two awaits; the outcome of every external call (list, fetch,    *)
(* upload, status, add-to-collection) is chosen nondeterministically.      *)
(* Spec is one request; FairSpec adds that every await returns; RunsSpec   *)
(* lets requests follow one another; ClassifySpec runs the switch on the   *)
(* file extension over a set of pathnames; ConcurrentSpec interleaves two  *)
(* calls of the handler at their awaits.                                   *)
(***************************************************************************)
EXTENDS Integers, Sequences, FiniteSets, TLC

\* ---------------------------------------------------------------- bounds
\* The longest listing the model explores.
MaxBlobs == 2
\* The deepest directory a classified pathname lies in.
MaxDepth == 1
\* A further request is explored while the earlier ones have created at most
\* this many downstream files.
MaxEarlier == 1

\* ------------------------------------------------------ program constants
\* route.ts:477  const maxAttempts = 6;
maxAttempts == 6

\* --------------------------------------------------------- input domains
NoValue == "<unset>"
\* process.env.CRON_SECRET: unset, or a secret.
CronSecrets == {NoValue, "s1"}
\* request.headers.get("authorization"): absent, the right or a wrong bearer,
\* or the text `Bearer ${undefined}` evaluates to.
AuthHeaders == {NoValue, "Bearer s1", "Bearer s2", "Bearer <unset>"}
\* The ids the downstream service may answer an upload with; nothing in the
\* handler makes two uploads return different ids.
FileIds == {"f1", "f2"}
\* uploadResponse.data?.id when the response carries no (or a falsy) id.
NoId == "<no-id>"
\* Outcomes of fetch(blob.url): a response with ok, one without, or a throw.
FetchOutcomes == {"ok", "notOk", "throw"}
\* data.content of a status response: undefined, a string (a sequence of
\* characters, " " for white space and "x" for any other character), or a
\* truthy value that is no string ("object").
Undefined == [type |-> "undefined", text |-> <<>>]
Contents ==
    {Undefined, [type |-> "object", text |-> <<>>]}
    \cup [type : {"string"},
          text : {<<>>, <<" ", " ">>, <<"x">>, <<" ", "x", " ">>}]
\* Bodies a GET /api/v1/files/{id} may return: data.status and data.content.
\* A file still being processed is given one content only, a non-blank one.
StatusBodies ==
    [kind : {"body"}, status : {"completed"}, content : Contents]
    \cup [kind : {"body"}, status : {"pending"},
          content : {[type |-> "string", text |-> <<" ", "x", " ">>]}]
\* What a status call can do: throw at transport level, return a response
\* whose data is undefined/null ("noBody"), or return a body.
StatusOutcomes ==
    {[kind |-> "throw", status |-> "none", content |-> Undefined],
     [kind |-> "noBody", status |-> "none", content |-> Undefined]}
    \cup StatusBodies
\* No status call has been issued yet.
NoStatus == [kind |-> "none", status |-> "none", content |-> Undefined]

\* A pathname is a sequence of pieces: the separators "." and "/", and words
\* that hold neither.  Words: the keys of the switch on fileExtension, some
\* of them in other letter cases, and words that are no key.
Keys ==
    {"md", "markdown", "txt", "json", "html", "pdf", "doc", "docx", "xls",
     "xlsx", "ppt", "pptx", "jpg", "jpeg", "png", "gif"}
Words == Keys \cup {"MD", "Pdf", "JPG", "Txt", "README", "notes", "bak", "v2"}
\* Directories: "docs/" and "v2.md/".
DirNames == {<<"docs", "/">>, <<"v2", ".", "md", "/">>}
RECURSIVE DirsOfDepth(_)
DirsOfDepth(n) ==
    IF n = 0 THEN {<<>>}
    ELSE {d \o e : d \in DirsOfDepth(n - 1), e \in DirNames}
Dirs == UNION {DirsOfDepth(n) : n \in 0..MaxDepth}
\* File names: a stem, then nothing, a suffix, two suffixes or a lone dot.
Stems == {<<"notes">>, <<"README">>, <<"md">>, <<"Pdf">>, <<"json">>}
Suffixes ==
    {<<>>, <<".">>, <<".", "md", ".", "bak">>, <<".", "bak", ".", "md">>}
    \cup {<<".", w>> : w \in Words}
\* blob.pathname
Pathnames == {d \o f \o e : d \in Dirs, f \in Stems, e \in Suffixes}
\* The pathname of the j-th blob of a listing of the run model.
ListedPath(j) == <<ToString(j), ".", IF j % 2 = 1 THEN "md" ELSE "Pdf">>
\* blob.size and blob.uploadedAt (a day number) of the j-th blob of a listing.
ListedSize(j) == 100 * j
ListedUploadedAt(j) == 20 - j

VARIABLES
    pc,            \* position in POST
    cronSecret,    \* process.env.CRON_SECRET
    authHeader,    \* the request's authorization header
    hasBlobToken,  \* BLOB_READ_WRITE_TOKEN is set
    hasBaseUrl,    \* OPEN_WEB_UI_BASE_URL is set
    hasApiKey,     \* OPEN_WEB_UI_API_KEY is set
    hasCollection, \* KNOWLEDGE_COLLECTION_ID is set
    blobs,         \* the listing: sequence of blobs (their numbers)
    pathnames,     \* blob.pathname of every listed blob
    bi,            \* index of the blob the phase-1 loop is at
    uploadResults, \* SyncResult[] built by phase 1
    finalResults,  \* SyncResult[]: the copy phase 2 updates
    uploadErrors,  \* Array<{file, error}>
    uploadedFiles, \* UploadedFile[]
    i,             \* index into uploadedFiles of the phase-2 loop
    attempts,      \* attempts of the status loop for uploadedFiles[i]
    fileReady,     \* fileReady of the status loop for uploadedFiles[i]
    response,      \* what POST returned
    calls,         \* history: the external calls issued so far, per blob
    created,       \* downstream: the files the service has created so far
    earlier,       \* downstream: those of them created by earlier requests
    other          \* the locals of a second call of POST that is suspended

vars == <<pc, cronSecret, authHeader, hasBlobToken, hasBaseUrl, hasApiKey,
          hasCollection, blobs, bi, uploadResults, finalResults,
          uploadErrors, uploadedFiles, i, attempts, fileReady, response, calls,
          pathnames, created, earlier, other>>

cfgVars == <<cronSecret, authHeader, hasBlobToken, hasBaseUrl, hasApiKey,
             hasCollection>>

NoResponse == [status |-> 0]

\* The call history of one blob.
NoCalls ==
    [fetch |-> 0, fetchOk |-> FALSE, bodyRead |-> FALSE, upload |-> 0,
     contentType |-> "none", transfer |-> "none",
     uploadOutcome |-> "none", uploadId |-> NoId, error |-> "none",
     status |-> 0, ready |-> FALSE, statusFailedAt |-> 0,
     statusError |-> "none", delays |-> 0,
     assoc |-> 0, assocOk |-> FALSE]

\* The call history of a run; lastStatus is the latest status response that
\* was read, until the step that follows it (the delay, the add-to-collection
\* call, the next status call) is over.
NoHistory ==
    [list |-> 0, settle |-> 0, blob |-> <<>>, lastStatus |-> NoStatus]

\* The locals of a call of POST that has just been entered, as a record.
NewCall(header) ==
    [pc |-> "start", authHeader |-> header, blobs |-> <<>>,
     pathnames |-> <<>>, bi |-> 0, uploadResults |-> <<>>,
     finalResults |-> <<>>, uploadErrors |-> <<>>, uploadedFiles |-> <<>>,
     i |-> 0, attempts |-> 0, fileReady |-> FALSE, response |-> NoResponse,
     calls |-> NoHistory]

\* There is no second call.
NoOther == [NewCall(NoValue) EXCEPT !.pc = "none"]

Init ==
    /\ pc = "start"
    /\ cronSecret \in CronSecrets
    /\ authHeader \in AuthHeaders
    /\ hasBlobToken \in BOOLEAN
    /\ hasBaseUrl \in BOOLEAN
    /\ hasApiKey \in BOOLEAN
    /\ hasCollection \in BOOLEAN
    /\ blobs = <<>>
    /\ bi = 0
    /\ uploadResults = <<>>
    /\ finalResults = <<>>
    /\ uploadErrors = <<>>
    /\ uploadedFiles = <<>>
    /\ i = 0
    /\ attempts = 0
    /\ fileReady = FALSE
    /\ response = NoResponse
    /\ calls = NoHistory
    /\ pathnames = <<>>
    /\ created = 0
    /\ earlier = 0
    /\ other = NoOther

\* ------------------------------------------------- authorization, config
\* `Bearer ${cronSecret}`
Bearer(secret) == "Bearer " \o secret

\* Mutant of Unauthorized: an unset CRON_SECRET is not rejected.
UnauthorizedUnlessUnset == authHeader # Bearer(cronSecret)

\* Mutant of Unauthorized: any authorization header is taken for the secret.
UnauthorizedWithoutHeader == cronSecret = NoValue \/ authHeader = NoValue

\* !cronSecret || authHeader !== `Bearer ${cronSecret}`
Unauthorized == cronSecret = NoValue \/ authHeader # Bearer(cronSecret)

\* Mutant of MissingEnvVars: OPEN_WEB_UI_API_KEY is not checked.
MissingEnvVarsButApiKey == ~hasBlobToken \/ ~hasBaseUrl

\* missingEnvVars.length > 0
MissingEnvVars == ~hasBlobToken \/ ~hasBaseUrl \/ ~hasApiKey

RejectUnauthorized ==
    /\ pc = "start"
    /\ Unauthorized
    /\ response' = [status |-> 401, error |-> "Unauthorized",
                    hasTimestamp |-> FALSE]
    /\ pc' = "done"
    /\ UNCHANGED <<cfgVars, other, pathnames, created, earlier, blobs, bi,
                   uploadResults, finalResults, uploadErrors, uploadedFiles,
                   i, attempts, fileReady, calls>>

RejectMissingEnv ==
    /\ pc = "start"
    /\ ~Unauthorized
    /\ MissingEnvVars
    /\ response' = [status |-> 500,
                    error |-> "Missing required environment variables",
                    hasTimestamp |-> FALSE]
    /\ pc' = "done"
    /\ UNCHANGED <<cfgVars, other, pathnames, created, earlier, blobs, bi,
                   uploadResults, finalResults, uploadErrors, uploadedFiles,
                   i, attempts, fileReady, calls>>

StartListing ==
    /\ pc = "start"
    /\ ~Unauthorized
    /\ ~MissingEnvVars
    /\ pc' = "list"
    /\ calls' = [calls EXCEPT !.list = @ + 1]
    /\ UNCHANGED <<cfgVars, other, pathnames, created, earlier, blobs, bi,
                   uploadResults, finalResults, uploadErrors, uploadedFiles,
                   i, attempts, fileReady, response>>

\* The fatal response of the outer catch (route.ts:635-647).
FatalResponse(details) ==
    [status |-> 500, error |-> "Sync operation failed", details |-> details,
     hasTimestamp |-> TRUE]

\* ---------------------------------------------------------------- listing
\* Mutant of AfterBlob: phase 2 is entered after each blob instead of after
\* the last one.
AfterBlobEntersPhase2(b) == "phase2"

\* for (const blob of blobs): where the loop goes once blob number b is dealt
\* with.
AfterBlob(b) == IF b < Len(blobs) THEN "fetch" ELSE "phase2"

\* const { blobs } = await list(...) returns n blobs, numbered 1..n (entries
\* of results[] and errors[] name a blob by its number), and the phase-1 loop
\* starts.
ListReturns ==
    /\ pc = "list"
    /\ \E n \in 0..MaxBlobs :
        /\ blobs' = [j \in 1..n |-> j]
        /\ pathnames' = [j \in 1..n |-> ListedPath(j)]
        /\ calls' = [calls EXCEPT !.blob = [j \in 1..n |-> NoCalls]]
        /\ pc' = IF n > 0 THEN "fetch" ELSE "phase2"
    /\ bi' = 1
    /\ UNCHANGED <<cfgVars, other, created, earlier, uploadResults,
                   finalResults, uploadErrors, uploadedFiles, i, attempts,
                   fileReady, response>>

\* await list(...) throws: the outer catch answers 500.
ListFails ==
    /\ pc = "list"
    /\ response' = FatalResponse("list failed")
    /\ pc' = "done"
    /\ UNCHANGED <<cfgVars, other, pathnames, created, earlier, blobs, bi,
                   uploadResults, finalResults, uploadErrors, uploadedFiles,
                   i, attempts, fileReady, calls>>

\* ---------------------------------------------------------------- phase 1
\* Mutant of PushError: the message of the error is not kept.
PushErrorUnknown(errors, file, message) ==
    Append(errors, [file |-> file, error |-> "Unknown error"])

\* Mutant of PushError: the failure is not recorded.
PushErrorLost(errors, file, message) == errors

\* uploadErrors.push({file: blob.pathname, error: error.message})
PushError(errors, file, message) ==
    Append(errors, [file |-> file, error |-> message])

\* Mutant of PushResult: a second entry is pushed for the same upload.
PushResultTwice(results, file, fileId) ==
    Append(Append(results, [file |-> file, status |-> "uploaded",
                            openWebUIId |-> fileId,
                            collectionStatus |-> "null",
                            size |-> ListedSize(file),
                            uploadedAt |-> ListedUploadedAt(file)]),
           [file |-> file, status |-> "uploaded", openWebUIId |-> fileId,
            collectionStatus |-> "null", size |-> ListedSize(file),
            uploadedAt |-> ListedUploadedAt(file)])

\* uploadResults.push({file, status: "uploaded", openWebUIId: fileId,
\*                     collectionStatus: null, size, uploadedAt})
PushResult(results, file, fileId) ==
    Append(results, [file |-> file, status |-> "uploaded",
                     openWebUIId |-> fileId, collectionStatus |-> "null",
                     size |-> ListedSize(file),
                     uploadedAt |-> ListedUploadedAt(file)])

\* uploadedFiles.push({id: fileId, pathname: blob.pathname, ...})
PushUploaded(files, file, fileId) ==
    Append(files, [id |-> fileId, pathname |-> file,
                   size |-> ListedSize(file),
                   uploadedAt |-> ListedUploadedAt(file)])

\* Mutant of ItemFailed: the failure of one blob ends the phase-1 loop.
ItemFailedEndsLoop(message) ==
    /\ uploadErrors' = PushError(uploadErrors, blobs[bi], message)
    /\ pc' = "phase2"
    /\ bi' = bi + 1
    /\ UNCHANGED <<uploadResults, uploadedFiles>>

\* Mutant of ItemFailed: a failed upload is tried again.
ItemFailedRetriesUpload(message) ==
    /\ uploadErrors' = PushError(uploadErrors, blobs[bi], message)
    /\ pc' = IF pc = "upload" THEN "upload" ELSE AfterBlob(bi)
    /\ bi' = IF pc = "upload" THEN bi ELSE bi + 1
    /\ UNCHANGED <<uploadResults, uploadedFiles>>

\* The catch block of the phase-1 loop body, then the next iteration.
ItemFailed(message) ==
    /\ uploadErrors' = PushError(uploadErrors, blobs[bi], message)
    /\ pc' = AfterBlob(bi)
    /\ bi' = bi + 1
    /\ UNCHANGED <<uploadResults, uploadedFiles>>

\* The end of the phase-1 loop body after an upload that returned fileId.
ItemUploaded(fileId) ==
    /\ uploadedFiles' = PushUploaded(uploadedFiles, blobs[bi], fileId)
    /\ uploadResults' = PushResult(uploadResults, blobs[bi], fileId)
    /\ pc' = AfterBlob(bi)
    /\ bi' = bi + 1
    /\ UNCHANGED uploadErrors

\* Mutant of FetchSucceeded: response.ok is not looked at.
FetchSucceededUnlessThrown(out) == out # "throw"

\* The fetch returned and response.ok holds: no error is thrown.
FetchSucceeded(out) == out = "ok"

\* The message of the error a failed fetch ends in: the one thrown for
\* !response.ok, or the one fetch itself threw.
FetchError(out) ==
    IF out = "notOk" THEN "Failed to fetch blob content" ELSE "fetch failed"

\* const response = await fetch(blob.url); if (!response.ok) throw ...
FetchBlob ==
    /\ pc = "fetch"
    /\ \E out \in FetchOutcomes :
        /\ calls' = [calls EXCEPT
               !.blob[bi].fetch = @ + 1,
               !.blob[bi].fetchOk = (out = "ok"),
               !.blob[bi].error =
                   IF FetchSucceeded(out) THEN @ ELSE FetchError(out)]
        /\ IF FetchSucceeded(out)
           THEN /\ pc' = "read"
                /\ UNCHANGED <<bi, uploadResults, uploadErrors,
                               uploadedFiles>>
           ELSE ItemFailed(FetchError(out))
    /\ UNCHANGED <<cfgVars, other, pathnames, created, earlier, blobs,
                   finalResults, i, attempts, fileReady, response>>

\* ---------------------------------------------------------- classification
\* pathname.split("."): the pieces between the dots, as a sequence.
RECURSIVE Split(_)
Split(path) ==
    IF \E k \in 1..Len(path) : path[k] = "."
    THEN LET k == CHOOSE m \in 1..Len(path) :
                    /\ path[m] = "."
                    /\ \A q \in 1..(m - 1) : path[q] # "."
         IN  <<SubSeq(path, 1, k - 1)>>
                 \o Split(SubSeq(path, k + 1, Len(path)))
    ELSE <<path>>

\* Array.prototype.pop(): the last element.
Pop(array) == array[Len(array)]

\* Mutant of LowerCaseOf: the letter case is kept.
LowerCaseOfKeepsCase(word) == word

\* The lower-case form of a word; separators and digits are their own.
LowerCaseOf(word) ==
    CASE word = "MD" -> "md"
      [] word = "Pdf" -> "pdf"
      [] word = "JPG" -> "jpg"
      [] word = "Txt" -> "txt"
      [] word = "README" -> "readme"
      [] OTHER -> word

\* String.prototype.toLowerCase() of the text a sequence of pieces spells.
RECURSIVE ToLowerCase(_)
ToLowerCase(pieces) ==
    IF pieces = <<>> THEN ""
    ELSE LowerCaseOf(Head(pieces)) \o ToLowerCase(Tail(pieces))

\* const fileExtension = blob.pathname.split(".").pop()?.toLowerCase()
FileExtension(path) == ToLowerCase(Pop(Split(path)))

\* The extensions whose case reads the body with response.text().
TextExtensions == {"md", "markdown", "txt", "json", "html"}

\* contentType after switch (fileExtension).
ContentType(fileExtension) ==
    CASE fileExtension \in {"md", "markdown"} -> "text/markdown"
      [] fileExtension = "txt" -> "text/plain"
      [] fileExtension = "json" -> "application/json"
      [] fileExtension = "html" -> "text/html"
      [] fileExtension = "pdf" -> "application/pdf"
      [] fileExtension \in {"doc", "docx"} ->
           "application/vnd.openxmlformats-officedocument.wordprocessingml.document"
      [] fileExtension \in {"xls", "xlsx"} ->
           "application/vnd.openxmlformats-officedocument.spreadsheetml.sheet"
      [] fileExtension \in {"ppt", "pptx"} ->
           "application/vnd.openxmlformats-officedocument.presentationml.presentation"
      [] fileExtension \in {"jpg", "jpeg"} -> "image/jpeg"
      [] fileExtension = "png" -> "image/png"
      [] fileExtension = "gif" -> "image/gif"
      [] OTHER -> "application/octet-stream"

\* How the case of the switch reads the body: response.text() ("text") or
\* response.arrayBuffer() ("binary").
Transfer(fileExtension) ==
    IF fileExtension \in TextExtensions THEN "text" ELSE "binary"

\* The switch on fileExtension: the content type is chosen and the body of
\* the fetched blob is read (content = await response.text() /
\* response.arrayBuffer()), or the read throws.
ReadBody ==
    /\ pc = "read"
    /\ \E ok \in BOOLEAN :
        /\ calls' = [calls EXCEPT
               !.blob[bi].contentType =
                   ContentType(FileExtension(pathnames[bi])),
               !.blob[bi].transfer = Transfer(FileExtension(pathnames[bi])),
               !.blob[bi].bodyRead = ok,
               !.blob[bi].error = IF ok THEN @ ELSE "body read failed"]
        /\ IF ok
           THEN /\ pc' = "upload"
                /\ UNCHANGED <<bi, uploadResults, uploadErrors,
                               uploadedFiles>>
           ELSE ItemFailed("body read failed")
    /\ UNCHANGED <<cfgVars, other, pathnames, created, earlier, blobs,
                   finalResults, i, attempts, fileReady, response>>

\* Mutant of HasFileId: the id of the upload response is not checked.
HasFileIdUnchecked(fileId) == TRUE

\* if (!fileId) throw ...: the upload response carries an id.
HasFileId(fileId) == fileId # NoId

\* throw new Error("Failed to get file ID from upload response")
NoFileIdError == "Failed to get file ID from upload response"

\* await axios.post(.../api/v1/files/, formData): the call throws, or answers
\* without an id, or answers with an id.
UploadBlob ==
    /\ pc = "upload"
    /\ \E out \in {"throw"} \cup {NoId} \cup FileIds :
        /\ calls' = [calls EXCEPT
               !.blob[bi].upload = @ + 1,
               !.blob[bi].uploadOutcome =
                   IF out = "throw" THEN "throw"
                   ELSE IF out = NoId THEN "noId" ELSE "id",
               !.blob[bi].uploadId = IF out \in FileIds THEN out ELSE NoId,
               !.blob[bi].error =
                   IF out = "throw" THEN "upload failed"
                   ELSE IF ~HasFileId(out) THEN NoFileIdError ELSE @]
        /\ created' = IF out \in FileIds THEN created + 1 ELSE created
        /\ CASE out = "throw" -> ItemFailed("upload failed")
             [] ~HasFileId(out) -> ItemFailed(NoFileIdError)
             [] OTHER -> ItemUploaded(out)
    /\ UNCHANGED <<cfgVars, other, pathnames, earlier, blobs, finalResults, i,
                   attempts, fileReady, response>>

\* ----------------------------------------------------------------- report
IsUploaded(r) == r.status = "uploaded"

IsAdded(r) == r.collectionStatus = "added"

\* The summary object (route.ts:609-624).
Summary(results) ==
    [status |-> 200,
     totalFiles |-> Len(blobs),
     successful |-> Len(SelectSeq(results, IsUploaded)),
     failed |-> Len(uploadErrors),
     addedToCollection |-> Len(SelectSeq(results, IsAdded)),
     hasTimestamp |-> TRUE,
     results |-> results,
     errors |-> uploadErrors]

\* ---------------------------------------------------------------- phase 2
\* Mutant of RunsPhase2: the number of uploaded files is not looked at.
RunsPhase2WithoutUploads == hasCollection

\* Mutant of RunsPhase2: the collection id is not looked at.
RunsPhase2WithoutCollection == Len(uploadedFiles) > 0

\* if (KNOWLEDGE_COLLECTION_ID && uploadedFiles.length > 0)
RunsPhase2 == hasCollection /\ Len(uploadedFiles) > 0

\* finalResults.findIndex((r) => r.openWebUIId === id): the first index
\* whose entry carries the id, 0 when there is none (-1 in the source).
FindIndex(results, id) ==
    IF \E k \in 1..Len(results) : results[k].openWebUIId = id
    THEN CHOOSE k \in 1..Len(results) :
            /\ results[k].openWebUIId = id
            /\ \A m \in 1..(k - 1) : results[m].openWebUIId # id
    ELSE 0

\* Mutant of SetCollectionStatus: the value is written to the status field.
SetCollectionStatusOverStatus(results, resultIndex, collectionStatus) ==
    IF resultIndex > 0
    THEN [results EXCEPT ![resultIndex].status = collectionStatus]
    ELSE results

\* Mutant of SetCollectionStatus: the updated entry is pushed at the end
\* instead of replacing the entry in place.
SetCollectionStatusAtEnd(results, resultIndex, collectionStatus) ==
    IF resultIndex > 0
    THEN Append(
            SubSeq(results, 1, resultIndex - 1)
                \o SubSeq(results, resultIndex + 1, Len(results)),
            [results[resultIndex] EXCEPT
                !.collectionStatus = collectionStatus])
    ELSE results

\* if (resultIndex >= 0) finalResults[resultIndex] =
\*     {...finalResults[resultIndex], collectionStatus}
SetCollectionStatus(results, resultIndex, collectionStatus) ==
    IF resultIndex > 0
    THEN [results EXCEPT ![resultIndex].collectionStatus = collectionStatus]
    ELSE results

\* finalResults.forEach(... collectionStatus: null ...)
NullStatuses(results) ==
    [k \in 1..Len(results) |->
        [results[k] EXCEPT !.collectionStatus = "null"]]

\* Mutant of EnterPhase2: the loop over uploadedFiles starts without the
\* settling delay.
EnterPhase2WithoutDelay ==
    /\ pc = "phase2"
    /\ hasCollection /\ Len(uploadedFiles) > 0
    /\ finalResults' = uploadResults
    /\ i' = 1
    /\ pc' = "poll"
    /\ UNCHANGED <<cfgVars, other, pathnames, created, earlier, blobs, bi,
                   uploadResults, uploadErrors, uploadedFiles, attempts,
                   fileReady, response, calls>>

\* const finalResults = [...uploadResults]; phase 2 is entered: the settling
\* delay starts.
EnterPhase2 ==
    /\ pc = "phase2"
    /\ RunsPhase2
    /\ finalResults' = uploadResults
    /\ pc' = "settle"
    /\ UNCHANGED <<cfgVars, other, pathnames, created, earlier, blobs, bi,
                   uploadResults, uploadErrors, uploadedFiles, i, attempts,
                   fileReady, response, calls>>

\* Phase 2 is skipped: every collectionStatus is set to null and the summary
\* is returned.
SkipPhase2 ==
    /\ pc = "phase2"
    /\ ~RunsPhase2
    /\ finalResults' = NullStatuses(uploadResults)
    /\ response' = Summary(finalResults')
    /\ pc' = "done"
    /\ UNCHANGED <<cfgVars, other, pathnames, created, earlier, blobs, bi,
                   uploadResults, uploadErrors, uploadedFiles, i, attempts,
                   fileReady, calls>>

\* await new Promise((resolve) => setTimeout(resolve, processingDelayMs))
\* is over; the loop over uploadedFiles starts.
SettleDelay ==
    /\ pc = "settle"
    /\ calls' = [calls EXCEPT !.settle = @ + 1]
    /\ i' = 1
    /\ attempts' = 0
    /\ fileReady' = FALSE
    /\ IF 1 <= Len(uploadedFiles)
       THEN pc' = "poll" /\ UNCHANGED response
       ELSE pc' = "done" /\ response' = Summary(finalResults)
    /\ UNCHANGED <<cfgVars, other, pathnames, created, earlier, blobs, bi,
                   uploadResults, finalResults, uploadErrors, uploadedFiles>>

\* The next iteration of the loop over uploadedFiles, or, after the last
\* one, the summary and the response.
NextFile(results) ==
    /\ finalResults' = results
    /\ i' = i + 1
    /\ attempts' = 0
    /\ fileReady' = FALSE
    /\ IF i < Len(uploadedFiles)
       THEN pc' = "poll" /\ UNCHANGED response
       ELSE pc' = "done" /\ response' = Summary(results)

\* fileData.data / fileData.data.content.trim() raise a TypeError, or the
\* call itself throws: the catch (statusError) block runs.
StatusThrows(out) ==
    out.kind = "throw" \/ out.kind = "noBody" \/ out.content.type = "object"

\* String.prototype.trim(): white space is removed from both ends.
RECURSIVE TrimStart(_)
TrimStart(s) ==
    IF s # <<>> /\ Head(s) = " " THEN TrimStart(Tail(s)) ELSE s

RECURSIVE TrimEnd(_)
TrimEnd(s) ==
    IF s # <<>> /\ s[Len(s)] = " "
    THEN TrimEnd(SubSeq(s, 1, Len(s) - 1))
    ELSE s

Trim(s) == TrimEnd(TrimStart(s))

\* fileData.data?.content && fileData.data.content.trim().length > 0
HasContent(content) ==
    /\ content.type = "string"
    /\ content.text # <<>>
    /\ Len(Trim(content.text)) > 0

\* Mutant of IsReady: the extracted content is not looked at.
IsReadyWhenCompleted(out) == out.kind = "body" /\ out.status = "completed"

\* isProcessed && hasContent
IsReady(out) ==
    /\ out.kind = "body"
    /\ out.status = "completed"
    /\ HasContent(out.content)

\* Mutant of PollContinues: the bound of the status loop is off by one.
PollContinuesOnceMore(ready, n) == ~ready /\ n <= maxAttempts

\* while (!fileReady && attempts < maxAttempts)
PollContinues(ready, n) == ~ready /\ n < maxAttempts

\* Mutant of NotReady: the failure leaves the loop for the outer catch.
NotReadyIsFatal ==
    /\ response' = FatalResponse("file not ready")
    /\ pc' = "done"
    /\ attempts' = 0
    /\ fileReady' = FALSE
    /\ UNCHANGED <<finalResults, i>>

\* if (!fileReady) { ... collectionStatus: "not-processed" ...; continue }
NotReady ==
    NextFile(SetCollectionStatus(
        finalResults, FindIndex(finalResults, uploadedFiles[i].id),
        "not-processed"))

\* Mutant of DelayFollows: the delay follows every not-ready check.
DelayFollowsAlways(n) == TRUE

\* else if (attempts < maxAttempts): the inter-attempt delay follows a
\* not-ready check.
DelayFollows(n) == n < maxAttempts

\* One turn of the status loop: attempts++, the GET, and what follows it up
\* to the next await.
StatusCheck ==
    /\ pc = "poll"
    /\ PollContinues(fileReady, attempts)
    /\ \E out \in StatusOutcomes :
        LET b == uploadedFiles[i].pathname
            n == attempts + 1
        IN  /\ CASE StatusThrows(out) -> NotReady
                 [] IsReady(out) ->
                      /\ fileReady' = TRUE
                      /\ attempts' = n
                      /\ pc' = "assoc"
                      /\ UNCHANGED <<finalResults, i, response>>
                 [] DelayFollows(n) ->
                      /\ attempts' = n
                      /\ pc' = "delay"
                      /\ UNCHANGED <<finalResults, i, fileReady, response>>
                 [] OTHER ->
                      IF PollContinues(FALSE, n)
                      THEN /\ attempts' = n
                           /\ pc' = "poll"
                           /\ UNCHANGED <<finalResults, i, fileReady,
                                          response>>
                      ELSE NotReady
            /\ calls' = [calls EXCEPT
                   !.lastStatus = IF StatusThrows(out) THEN NoStatus ELSE out,
                   !.blob[b].status = @ + 1,
                   !.blob[b].ready = (~StatusThrows(out) /\ IsReady(out)),
                   !.blob[b].statusFailedAt =
                       IF StatusThrows(out) THEN n ELSE @,
                   !.blob[b].statusError =
                       IF out.kind = "throw" THEN "transport"
                       ELSE IF StatusThrows(out) THEN "unreadable" ELSE @]
    /\ UNCHANGED <<cfgVars, other, pathnames, created, earlier, blobs, bi,
                   uploadResults, uploadErrors, uploadedFiles>>

\* await new Promise((resolve) => setTimeout(resolve, 3000)) is over and the
\* condition of the status loop is evaluated again.
InterAttemptDelay ==
    /\ pc = "delay"
    /\ calls' = [calls EXCEPT
           !.lastStatus = NoStatus,
           !.blob[uploadedFiles[i].pathname].delays = @ + 1]
    /\ IF PollContinues(fileReady, attempts)
       THEN /\ pc' = "poll"
            /\ UNCHANGED <<finalResults, i, attempts, fileReady, response>>
       ELSE NotReady
    /\ UNCHANGED <<cfgVars, other, pathnames, created, earlier, blobs, bi,
                   uploadResults, uploadErrors, uploadedFiles>>

\* Mutant of AddedStatus: the failure of the add-to-collection call is not
\* caught next to the call and reaches the catch block of the loop body.
AddedStatusUncaught(ok) == IF ok THEN "added" ELSE "error"

\* The collectionStatus the add-to-collection call ends in: "added", or
\* "collection-failed" in catch (collectionError).
AddedStatus(ok) == IF ok THEN "added" ELSE "collection-failed"

\* await axios.post(.../knowledge/{id}/file/add, {file_id}) and the update
\* of the file's result.
AddToCollection ==
    /\ pc = "assoc"
    /\ \E ok \in BOOLEAN :
        LET b == uploadedFiles[i].pathname
            resultIndex == FindIndex(finalResults, uploadedFiles[i].id)
        IN  /\ calls' = [calls EXCEPT !.lastStatus = NoStatus,
                                      !.blob[b].assoc = @ + 1,
                                      !.blob[b].assocOk = ok]
            /\ NextFile(SetCollectionStatus(
                   finalResults, resultIndex, AddedStatus(ok)))
    /\ UNCHANGED <<cfgVars, other, pathnames, created, earlier, blobs, bi,
                   uploadResults, uploadErrors, uploadedFiles>>

\* ------------------------------------------------------------- vocabulary
\* A report (HTTP 200) was returned.
Reported == response.status = 200

\* The listed items (pathnames).
Items == DOMAIN calls.blob

\* The upload of item j returned an id.
Uploaded(j) == calls.blob[j].uploadId # NoId

\* The entries of a result list that belong to item j.
EntriesOf(results, j) == {k \in 1..Len(results) : results[k].file = j}

\* The collectionStatus the report gives item j (an uploaded item has one
\* entry, see C2_Amended).
StatusOf(j) ==
    response.results[CHOOSE k \in EntriesOf(response.results, j) : TRUE]
        .collectionStatus

\* The uploads of the run returned pairwise distinct ids.
DistinctIds ==
    \A j, k \in Items :
        (Uploaded(j) /\ Uploaded(k) /\ j # k)
            => calls.blob[j].uploadId # calls.blob[k].uploadId

Next ==
    \/ RejectUnauthorized
    \/ RejectMissingEnv
    \/ StartListing
    \/ ListReturns
    \/ ListFails
    \/ FetchBlob
    \/ ReadBody
    \/ UploadBlob
    \/ EnterPhase2
    \/ SkipPhase2
    \/ SettleDelay
    \/ StatusCheck
    \/ InterAttemptDelay
    \/ AddToCollection

Spec == Init /\ [][Next]_vars

\* Every await of the handler is one of: list, fetch, body read, upload, the
\* two delays, status, add-to-collection.  Under the assumption that each of
\* them returns or fails, a step of the handler that is possible is taken.
FairSpec == Spec /\ WF_vars(Next)

\* ------------------------------------------- the classifier on its inputs
\* The run has listed one blob, whose pathname is any of Pathnames, and has
\* fetched it: the switch on fileExtension is next.
ClassifyInit ==
    /\ pc = "read"
    /\ cronSecret = "s1"
    /\ authHeader = "Bearer s1"
    /\ hasBlobToken = TRUE
    /\ hasBaseUrl = TRUE
    /\ hasApiKey = TRUE
    /\ hasCollection = TRUE
    /\ blobs = <<1>>
    /\ pathnames \in {<<path>> : path \in Pathnames}
    /\ bi = 1
    /\ uploadResults = <<>>
    /\ finalResults = <<>>
    /\ uploadErrors = <<>>
    /\ uploadedFiles = <<>>
    /\ i = 0
    /\ attempts = 0
    /\ fileReady = FALSE
    /\ response = NoResponse
    /\ calls = [NoHistory EXCEPT
           !.list = 1,
           !.blob = <<[NoCalls EXCEPT !.fetch = 1, !.fetchOk = TRUE]>>]
    /\ created = 0
    /\ earlier = 0
    /\ other = NoOther

ClassifyNext == ReadBody

ClassifySpec == ClassifyInit /\ [][ClassifyNext]_vars

\* ------------------------------------------------- one request after another
\* Mutant of NewRequest: uploadResults is kept from one call to the next (a
\* variable of the module instead of a local of POST).
NewRequestKeepsResults ==
    /\ pc = "done"
    /\ created <= MaxEarlier
    /\ pc' = "start"
    /\ authHeader' \in AuthHeaders
    /\ blobs' = <<>>
    /\ pathnames' = <<>>
    /\ bi' = 0
    /\ finalResults' = <<>>
    /\ uploadErrors' = <<>>
    /\ uploadedFiles' = <<>>
    /\ i' = 0
    /\ attempts' = 0
    /\ fileReady' = FALSE
    /\ response' = NoResponse
    /\ calls' = NoHistory
    /\ earlier' = created
    /\ UNCHANGED <<cronSecret, hasBlobToken, hasBaseUrl, hasApiKey,
                   hasCollection, created, uploadResults, other>>

\* The handler is called again once it has answered: every variable of POST
\* is a local of the call and starts afresh; the environment variables and
\* the downstream files stay.
NewRequest ==
    /\ pc = "done"
    /\ created <= MaxEarlier
    /\ pc' = "start"
    /\ authHeader' \in AuthHeaders
    /\ blobs' = <<>>
    /\ pathnames' = <<>>
    /\ bi' = 0
    /\ uploadResults' = <<>>
    /\ finalResults' = <<>>
    /\ uploadErrors' = <<>>
    /\ uploadedFiles' = <<>>
    /\ i' = 0
    /\ attempts' = 0
    /\ fileReady' = FALSE
    /\ response' = NoResponse
    /\ calls' = NoHistory
    /\ earlier' = created
    /\ UNCHANGED <<cronSecret, hasBlobToken, hasBaseUrl, hasApiKey,
                   hasCollection, created, other>>

RunsNext == Next \/ NewRequest

RunsSpec == Init /\ [][RunsNext]_vars

\* ================================================================= claims

\* C1: in every returned report successful + failed = totalFiles and
\* 0 <= addedToCollection <= successful.
C1_Counters ==
    Reported =>
        /\ response.successful + response.failed = response.totalFiles
        /\ 0 <= response.addedToCollection
        /\ response.addedToCollection <= response.successful

\* Witness of C1: a report of a run with a failed item, an uploaded item and
\* an item added to the collection.
C1_Witness ==
    /\ Reported
    /\ response.failed = 1
    /\ response.successful = 1
    /\ response.addedToCollection = 1

C3_FailureIsolation ==
    \A j \in Items :
        LET c == calls.blob[j]
        IN  IF pc \in {"fetch", "read", "upload"} /\ j >= bi
            THEN /\ c.fetch = (IF j = bi /\ pc # "fetch" THEN 1 ELSE 0)
                 /\ c.upload = 0
            ELSE /\ c.fetch = 1
                 /\ c.upload = (IF c.fetchOk /\ c.bodyRead THEN 1 ELSE 0)

\* Witness of C3: the first item failed (fetch failure, upload failure or
\* missing id) and the second item was fetched and uploaded.
C3_Witness ==
    /\ Reported
    /\ response.totalFiles = 2
    /\ ~Uploaded(1)
    /\ calls.blob[2].fetch = 1
    /\ Uploaded(2)

\* C5: without a collection id the run returns a full report once the
\* listing succeeded, every results[] entry has collectionStatus null and
\* addedToCollection is 0.
C5_NoCollection ==
    ~hasCollection =>
        /\ (pc = "done" /\ bi > 0) => Reported
        /\ Reported =>
              /\ \A k \in 1..Len(response.results) :
                    response.results[k].collectionStatus = "null"
              /\ response.addedToCollection = 0

\* Witness of C5: a report with two uploaded items of a run without a
\* collection id.
C5_Witness ==
    /\ ~hasCollection
    /\ Reported
    /\ Len(response.results) = 2

\* The item's status loop ran all 6 attempts and none reported ready.
Exhausted(j) ==
    /\ Uploaded(j)
    /\ calls.blob[j].status = 6
    /\ ~calls.blob[j].ready

\* All uploaded items had their status checked: the phase-2 loop reached
\* every one of them.
AllPolled == \A k \in Items : Uploaded(k) => calls.blob[k].status >= 1

\* C4: an uploaded item whose 6 status checks never reported ready ends with
\* collectionStatus 'not-processed', and no add-to-collection call is issued
\* for its remote id.
C4_Exhausted ==
    Reported =>
        \A j \in Items :
            Exhausted(j) =>
                /\ StatusOf(j) = "not-processed"
                /\ \A k \in Items :
                      calls.blob[k].uploadId = calls.blob[j].uploadId
                          => calls.blob[k].assoc = 0

\* C4 in the runs whose uploads returned pairwise distinct ids.
C4_ExhaustedDistinctIds == DistinctIds => C4_Exhausted

\* C6: an item whose add-to-collection call failed keeps status 'uploaded',
\* ends with collectionStatus 'collection-failed', counts in successful, had
\* one upload call and one add-to-collection call, and the items after it
\* were still polled.
C6_CollectionFailed ==
    Reported =>
        \A j \in Items :
            (calls.blob[j].assoc >= 1 /\ ~calls.blob[j].assocOk) =>
                /\ \A k \in EntriesOf(response.results, j) :
                      response.results[k].status = "uploaded"
                /\ StatusOf(j) = "collection-failed"
                /\ response.successful =
                      Cardinality({k \in Items : Uploaded(k)})
                /\ calls.blob[j].upload = 1
                /\ calls.blob[j].assoc = 1
                /\ AllPolled

\* C6 in the runs whose uploads returned pairwise distinct ids.
C6_CollectionFailedDistinctIds == DistinctIds => C6_CollectionFailed

\* C7: an item whose status call failed at transport level on attempt k had
\* exactly k status calls, ends with collectionStatus 'not-processed', has no
\* add-to-collection call, and the other uploaded items were still polled.
C7_StatusTransportFailure ==
    Reported =>
        \A j \in Items :
            calls.blob[j].statusError = "transport" =>
                /\ calls.blob[j].statusFailedAt \in 1..6
                /\ calls.blob[j].status = calls.blob[j].statusFailedAt
                /\ StatusOf(j) = "not-processed"
                /\ calls.blob[j].assoc = 0
                /\ AllPolled

\* C7 in the runs whose uploads returned pairwise distinct ids.
C7_StatusTransportFailureDistinctIds ==
    DistinctIds => C7_StatusTransportFailure

\* C8 as stated, its count: in any run every uploaded item has at least 1 and
\* at most 6 status calls.
C8_Original ==
    Reported =>
        \A j \in Items :
            Uploaded(j) =>
                (calls.blob[j].status >= 1 /\ calls.blob[j].status <= 6)

\* C8 amended: an item never has more than 6 status calls; in a run with a
\* collection id configured every uploaded item of the report has at least
\* 1; and no status call is issued for an item after a status check
\* reported it ready.
C8_BoundedPolling ==
    [][ /\ \A j \in DOMAIN calls'.blob : calls'.blob[j].status <= 6
        /\ (response'.status = 200 /\ hasCollection') =>
              \A j \in DOMAIN calls'.blob :
                  calls'.blob[j].uploadId # NoId
                      => calls'.blob[j].status >= 1
        /\ \A j \in Items :
              calls.blob[j].ready
                  => calls'.blob[j].status = calls.blob[j].status ]_vars

\* Witness of C8: a report in which the first item was polled 6 times and
\* the second was reported ready by its 2nd status check.
C8_Witness ==
    /\ Reported
    /\ response.totalFiles = 2
    /\ calls.blob[1].status = 6
    /\ calls.blob[2].status = 2
    /\ calls.blob[2].ready

\* C9: with a collection id configured, exactly one add-to-collection call is
\* issued for each uploaded item a status check reported ready and none for
\* any other item, and an item's collectionStatus is 'added' if and only if
\* its add-to-collection call succeeded.
C9_OneAssociation ==
    (Reported /\ hasCollection) =>
        \A j \in Items :
            /\ calls.blob[j].assoc =
                  (IF Uploaded(j) /\ calls.blob[j].ready THEN 1 ELSE 0)
            /\ Uploaded(j) =>
                  (StatusOf(j) = "added" <=> calls.blob[j].assocOk)

\* C9 in the runs whose uploads returned pairwise distinct ids.
C9_OneAssociationDistinctIds == DistinctIds => C9_OneAssociation

\* C10: addedToCollection is the number of uploaded items that were reported
\* ready and whose add-to-collection call succeeded, and an item that was
\* never reported ready in 6 attempts ends 'not-processed' whatever the
\* other items did.
C10_IndependentOutcomes ==
    Reported =>
        /\ response.addedToCollection =
              Cardinality({j \in Items :
                  /\ Uploaded(j)
                  /\ calls.blob[j].ready
                  /\ calls.blob[j].assocOk})
        /\ \A j \in Items :
              Exhausted(j) => StatusOf(j) = "not-processed"

\* C10 in the runs whose uploads returned pairwise distinct ids.
C10_IndependentOutcomesDistinctIds == DistinctIds => C10_IndependentOutcomes

\* The scenario of C10: two uploaded items with distinct ids, the first never
\* ready in 6 attempts, the second ready on its 2nd attempt and added:
\* addedToCollection = 1 and the first item is 'not-processed'.
C10_Scenario ==
    /\ Reported
    /\ response.totalFiles = 2
    /\ DistinctIds
    /\ Exhausted(1)
    /\ calls.blob[2].status = 2
    /\ calls.blob[2].assocOk
    /\ response.addedToCollection = 1
    /\ StatusOf(1) = "not-processed"
    /\ StatusOf(2) = "added"

\* The entries of errors[] that belong to item j.
ErrorsOf(errors, j) == {k \in 1..Len(errors) : errors[k].file = j}

\* The pathnames of a result list, in its order.
FilesOf(results) == [k \in 1..Len(results) |-> results[k].file]

\* C11: errors[] holds exactly one {file, error} entry for each listed item
\* whose fetch or upload failed, with the item's path and the message of its
\* failure, and none for an uploaded item; for 3 items, one fetch failure and
\* no collection id the report has totalFiles=3, successful=2, failed=1,
\* addedToCollection=0 and one error.
C11_Errors ==
    Reported =>
        /\ \A k \in 1..Len(response.errors) :
              response.errors[k].file \in Items
        /\ \A j \in Items :
              IF Uploaded(j)
              THEN ErrorsOf(response.errors, j) = {}
              ELSE /\ Cardinality(ErrorsOf(response.errors, j)) = 1
                   /\ calls.blob[j].error # "none"
                   /\ \A k \in ErrorsOf(response.errors, j) :
                         response.errors[k].error = calls.blob[j].error
        /\ ( /\ response.totalFiles = 3
             /\ ~hasCollection
             /\ Cardinality({j \in Items : ~calls.blob[j].fetchOk}) = 1
             /\ Cardinality({j \in Items : Uploaded(j)}) = 2 )
           => /\ response.successful = 2
              /\ response.failed = 1
              /\ response.addedToCollection = 0
              /\ Len(response.errors) = 1

\* Witness of C11: the report of a run without collection id over two items,
\* the first with a failed fetch, the second uploaded: errors[] holds the
\* first item and its message only.
C11_Witness ==
    /\ Reported
    /\ ~hasCollection
    /\ response.totalFiles = 2
    /\ Uploaded(2)
    /\ response.errors =
          <<[file |-> 1, error |-> "Failed to fetch blob content"]>>
    /\ response.failed = 1
    /\ response.successful = 1

\* C12: results[] lists its entries in the order of the listing, and phase 2
\* keeps the entries phase 1 built at their places: none is moved, added or
\* removed.
C12_ListingOrder ==
    (pc \in {"settle", "poll", "delay", "assoc"} \/ Reported) =>
        /\ FilesOf(finalResults) = FilesOf(uploadResults)
        /\ \A k, m \in 1..Len(finalResults) :
              k < m => finalResults[k].file < finalResults[m].file
        /\ Reported => response.results = finalResults

\* Witness of C12: a report of two uploaded items whose entries phase 2
\* updated, the first 'not-processed' and the second 'added', in listing
\* order.
C12_Witness ==
    /\ Reported
    /\ FilesOf(response.results) = <<1, 2>>
    /\ response.results[1].collectionStatus = "not-processed"
    /\ response.results[2].collectionStatus = "added"

\* C13: when BLOB_READ_WRITE_TOKEN, OPEN_WEB_UI_BASE_URL or
\* OPEN_WEB_UI_API_KEY is missing, no list, fetch, upload, status or
\* add-to-collection call is ever made and the run ends with an error
\* response (500 for an authorized request), never a report.
C13_ConfigError ==
    (~hasBlobToken \/ ~hasBaseUrl \/ ~hasApiKey) =>
        /\ calls = NoHistory
        /\ pc \in {"start", "done"}
        /\ pc = "done" =>
              /\ response.status = (IF Unauthorized THEN 401 ELSE 500)
              /\ response.error =
                    (IF Unauthorized THEN "Unauthorized"
                     ELSE "Missing required environment variables")

\* Witness of C13: an authorized request with only OPEN_WEB_UI_API_KEY
\* missing was answered 500 without any call.
C13_Witness ==
    /\ pc = "done"
    /\ ~Unauthorized
    /\ hasBlobToken /\ hasBaseUrl /\ ~hasApiKey
    /\ response.status = 500
    /\ calls = NoHistory

\* C14: every fatal response (status 500), for a missing environment
\* variable as for a failed listing, carries a timestamp.
C14_FatalTimestamp ==
    (pc = "done" /\ response.status = 500) => response.hasTimestamp

\* The fields of a report and of an error response.
ReportFields ==
    {"status", "totalFiles", "successful", "failed", "addedToCollection",
     "hasTimestamp", "results", "errors"}

ErrorFields == {"status", "error", "details", "hasTimestamp"}

\* C15: once the listing returned, no error response is ever given and the
\* run ends with a report; a response is either a report (no error field) or
\* an error response (no report field).
C15_ReportOrFatal ==
    /\ bi > 0 => response.status \in {0, 200}
    /\ (pc = "done" /\ bi > 0) => Reported
    /\ pc = "done" =>
          IF Reported
          THEN DOMAIN response = ReportFields
          ELSE /\ response.status \in {401, 500}
               /\ DOMAIN response \subseteq ErrorFields

\* Witness of C15: a report of a run in which the first item's upload failed
\* and the second item's status call failed at transport level.
C15_Witness ==
    /\ Reported
    /\ response.totalFiles = 2
    /\ calls.blob[1].uploadOutcome = "throw"
    /\ calls.blob[2].statusError = "transport"

\* C16: unless a collection id is configured and at least one upload
\* succeeded, the run has no settling delay, no status call, no
\* inter-attempt delay and no add-to-collection call.
C16_Phase2Condition ==
    ~(hasCollection /\ \E j \in Items : Uploaded(j)) =>
        /\ pc \notin {"settle", "poll", "delay", "assoc"}
        /\ calls.settle = 0
        /\ \A j \in Items :
              /\ calls.blob[j].status = 0
              /\ calls.blob[j].delays = 0
              /\ calls.blob[j].assoc = 0

\* Witness of C16: a report of a run with a collection id in which both
\* uploads failed: no settling delay happened.
C16_Witness ==
    /\ Reported
    /\ hasCollection
    /\ response.totalFiles = 2
    /\ response.failed = 2
    /\ calls.settle = 0

\* C17: the settling delay happens at most once in a run, it is over before
\* the first status call of any item, and a run that polled has had it
\* exactly once.
C17_SettleOnce ==
    /\ calls.settle <= 1
    /\ (pc \in {"poll", "delay", "assoc"}
          \/ \E j \in Items : calls.blob[j].status >= 1)
        => calls.settle = 1
    /\ (Reported /\ hasCollection /\ \E j \in Items : Uploaded(j))
        => calls.settle = 1

\* Witness of C17: a report of a run that polled two items after one
\* settling delay.
C17_Witness ==
    /\ Reported
    /\ response.totalFiles = 2
    /\ calls.blob[1].status >= 1
    /\ calls.blob[2].status >= 1
    /\ calls.settle = 1

\* C18: an item whose upload response carried no id is never polled nor
\* added to the collection; in the report it has no results[] entry, one
\* errors[] entry with the missing-id message, and it counts in failed, not
\* in successful.
C18_MissingId ==
    /\ \A j \in Items :
          calls.blob[j].uploadOutcome = "noId" =>
              /\ calls.blob[j].status = 0
              /\ calls.blob[j].assoc = 0
    /\ Reported =>
          /\ \A j \in Items :
                calls.blob[j].uploadOutcome = "noId" =>
                    /\ EntriesOf(response.results, j) = {}
                    /\ Cardinality(ErrorsOf(response.errors, j)) = 1
                    /\ \A k \in ErrorsOf(response.errors, j) :
                          response.errors[k].error =
                              "Failed to get file ID from upload response"
          /\ response.successful =
                Cardinality({j \in Items :
                    calls.blob[j].uploadOutcome = "id"})
          /\ response.failed =
                Cardinality({j \in Items :
                    calls.blob[j].uploadOutcome # "id"})

\* Witness of C18: a report of a run with a collection id in which the first
\* upload answered without an id and the second item was added.
C18_Witness ==
    /\ Reported
    /\ hasCollection
    /\ response.totalFiles = 2
    /\ calls.blob[1].uploadOutcome = "noId"
    /\ calls.blob[2].assocOk
    /\ response.failed = 1

\* C19: for every item, an upload call is issued only once its fetch
\* succeeded (none after a failed fetch), a status call only once its upload
\* returned an id, and an add-to-collection call only once a status check
\* reported it ready.
C19_StageOrder ==
    \A j \in Items :
        LET c == calls.blob[j]
        IN  /\ c.upload >= 1 => (c.fetch = 1 /\ c.fetchOk)
            /\ ~c.fetchOk => c.upload = 0
            /\ c.status >= 1 => (c.upload = 1 /\ c.uploadOutcome = "id")
            /\ c.assoc >= 1 => (c.status >= 1 /\ c.ready)

\* Witness of C19: the first item's fetch failed and it has no upload call;
\* the second item went through fetch, upload, two status checks and the
\* add-to-collection call.
C19_Witness ==
    /\ Reported
    /\ response.totalFiles = 2
    /\ calls.blob[1].fetch = 1
    /\ ~calls.blob[1].fetchOk
    /\ calls.blob[1].upload = 0
    /\ calls.blob[2].upload = 1
    /\ calls.blob[2].status = 2
    /\ calls.blob[2].assoc = 1

\* C20: when the settling delay starts, and whenever a status or
\* add-to-collection call has been issued, the phase-1 loop is over: every
\* listed item has had its one fetch and, if fetched and read, its one
\* upload, and no fetch or upload is pending.
C20_TwoPhases ==
    ( \/ pc \in {"settle", "poll", "delay", "assoc"}
      \/ calls.settle >= 1
      \/ \E j \in Items :
            calls.blob[j].status >= 1 \/ calls.blob[j].assoc >= 1 )
    => /\ pc \notin {"start", "list", "fetch", "read", "upload", "phase2"}
       /\ bi = Len(blobs) + 1
       /\ \A j \in Items :
             /\ calls.blob[j].fetch = 1
             /\ calls.blob[j].upload =
                   (IF calls.blob[j].fetchOk /\ calls.blob[j].bodyRead
                    THEN 1 ELSE 0)

\* Witness of C20: the settling delay is running after two items were
\* fetched, the first one uploaded and the second one failed to upload.
C20_Witness ==
    /\ pc = "settle"
    /\ Len(blobs) = 2
    /\ Uploaded(1)
    /\ calls.blob[2].uploadOutcome = "throw"

\* ------------------------------------------- vocabulary of classification
\* The switch on fileExtension has run for item j.
Classified(j) == calls.blob[j].contentType # "none"

\* The file name of a pathname: what follows its last "/".
FileName(path) ==
    IF \E k \in 1..Len(path) : path[k] = "/"
    THEN LET k == CHOOSE m \in 1..Len(path) :
                    /\ path[m] = "/"
                    /\ \A q \in (m + 1)..Len(path) : path[q] # "/"
         IN  SubSeq(path, k + 1, Len(path))
    ELSE path

\* The file name has an extension: a dot with a stem before it.
HasExtension(path) ==
    \E k \in 2..Len(FileName(path)) : FileName(path)[k] = "."

\* The extension of a file name that has one, in lower case.
Extension(path) == ToLowerCase(Pop(Split(FileName(path))))

\* The MIME types of the classification table.
MimeTypes ==
    {"text/markdown", "text/plain", "application/json", "text/html",
     "application/pdf",
     "application/vnd.openxmlformats-officedocument.wordprocessingml.document",
     "application/vnd.openxmlformats-officedocument.spreadsheetml.sheet",
     "application/vnd.openxmlformats-officedocument.presentationml.presentation",
     "image/jpeg", "image/png", "image/gif", "application/octet-stream"}

\* Item j was given the default of the table: binary transfer of
\* application/octet-stream.
DefaultClass(j) ==
    /\ calls.blob[j].contentType = "application/octet-stream"
    /\ calls.blob[j].transfer = "binary"

\* C21: classification is total (every classified pathname has a MIME type
\* of the table and a transfer mode), and a pathname whose file name has no
\* extension, or an extension that is no key of the table, is classified as
\* binary transfer of application/octet-stream.
C21_Classify ==
    \A j \in Items :
        Classified(j) =>
            /\ calls.blob[j].contentType \in MimeTypes
            /\ calls.blob[j].transfer \in {"text", "binary"}
            /\ ( \/ ~HasExtension(pathnames[j])
                 \/ Extension(pathnames[j]) \notin Keys )
               => DefaultClass(j)

\* C21 for the pathnames that hold a dot somewhere, or spell no key of the
\* table: for them the claim holds.
C21_ClassifyDotted ==
    \A j \in Items :
        ( /\ Classified(j)
          /\ \/ \E k \in 1..Len(pathnames[j]) : pathnames[j][k] = "."
             \/ ToLowerCase(pathnames[j]) \notin Keys )
        => /\ calls.blob[j].contentType \in MimeTypes
           /\ calls.blob[j].transfer \in {"text", "binary"}
           /\ ( \/ ~HasExtension(pathnames[j])
                \/ Extension(pathnames[j]) \notin Keys )
              => DefaultClass(j)

\* The case C21 fails in: a pathname without any dot that spells a key.
C21_Scenario ==
    /\ Len(blobs) = 1
    /\ pathnames[1] = <<"json">>
    /\ Classified(1)
    /\ calls.blob[1].contentType = "application/json"
    /\ calls.blob[1].transfer = "text"

\* C22: in every report each remote id (openWebUIId) of results[] is the id
\* of exactly one entry, and, when a collection is configured, every entry
\* carries the collectionStatus its own item ended phase 2 with (none is
\* left at null), whatever ids the upload calls returned.
C22_UniqueIds ==
    Reported =>
        /\ \A k, m \in 1..Len(response.results) :
              k # m => response.results[k].openWebUIId
                           # response.results[m].openWebUIId
        /\ hasCollection =>
              \A k \in 1..Len(response.results) :
                  response.results[k].collectionStatus # "null"

\* C22 for the runs whose uploads returned pairwise distinct ids: for them
\* the claim holds.
C22_UniqueIdsDistinctIds == DistinctIds => C22_UniqueIds

\* The case C22 fails in: two uploads returned the same id, both files were
\* found ready and added, and the report shows the id twice, the second
\* entry still at null.
C22_Scenario ==
    /\ Reported
    /\ Len(response.results) = 2
    /\ response.results[1].openWebUIId = response.results[2].openWebUIId
    /\ calls.blob[1].assocOk /\ calls.blob[2].assocOk
    /\ response.results[1].collectionStatus = "added"
    /\ response.results[2].collectionStatus = "null"

\* C23: a POST whose authorization header is not exactly "Bearer " followed
\* by CRON_SECRET (or with CRON_SECRET unset) issues no external call at any
\* time, creates no downstream file, and is answered 401 Unauthorized; a run
\* that has gone past the check carries the right bearer secret.
C23_Unauthorized ==
    LET wrong == cronSecret = NoValue \/ authHeader # "Bearer " \o cronSecret
    IN  /\ wrong =>
              /\ pc \in {"start", "done"}
              /\ calls = NoHistory
              /\ created = 0
              /\ pc = "done" =>
                    /\ response.status = 401
                    /\ response.error = "Unauthorized"
        /\ (pc \notin {"start", "done"} \/ calls.list >= 1) => ~wrong

\* Witness of C23: a request with a wrong bearer secret was answered 401 and
\* no call was issued.
C23_Witness ==
    /\ cronSecret = "s1"
    /\ authHeader = "Bearer s2"
    /\ pc = "done"
    /\ response.status = 401
    /\ calls = NoHistory

\* The sum f[1] + ... + f[n].
RECURSIVE SumTo(_, _)
SumTo(f, n) == IF n = 0 THEN 0 ELSE f[n] + SumTo(f, n - 1)

\* The calls of one kind the run has issued so far, over all listed items.
FetchCalls == SumTo([j \in Items |-> calls.blob[j].fetch], Len(blobs))
UploadCalls == SumTo([j \in Items |-> calls.blob[j].upload], Len(blobs))
StatusCalls == SumTo([j \in Items |-> calls.blob[j].status], Len(blobs))
AssocCalls == SumTo([j \in Items |-> calls.blob[j].assoc], Len(blobs))

\* C24: if every external call and every delay returns or fails (FairSpec),
\* each run eventually returns a response, and at any time a run over N
\* listed items has issued at most one list call, N fetch calls, N upload
\* calls, 6*N status calls and N add-to-collection calls.
C24_Termination ==
    /\ <>(pc = "done" /\ response.status \in {200, 401, 500})
    /\ [](/\ calls.list <= 1
          /\ FetchCalls <= Len(blobs)
          /\ UploadCalls <= Len(blobs)
          /\ StatusCalls <= 6 * Len(blobs)
          /\ AssocCalls <= Len(blobs))

\* Witness of C24: a run over two items has returned its report after 2
\* fetch, 2 upload and 12 status calls.
C24_Witness ==
    /\ pc = "done"
    /\ Reported
    /\ Len(blobs) = 2
    /\ FetchCalls = 2
    /\ UploadCalls = 2
    /\ StatusCalls = 12
    /\ AssocCalls = 0

\* The run is at an await with listed items still in flight.
InFlight == pc \in {"fetch", "read", "upload", "settle", "poll", "delay", "assoc"}

\* A step that ends the run at once: a report is returned, and no further
\* external call is issued.
DeadlineStep ==
    /\ Next
    /\ pc' = "done"
    /\ response'.status = 200
    /\ calls' = calls

\* C25: the run supports an overall deadline: while items are in flight the
\* run can be ended at once (the deadline may expire at any await), and it
\* then returns the report of the partial results without issuing another
\* call.
C25_Deadline == InFlight => ENABLED DeadlineStep

\* The case C25 fails in: the status loop of the first of two uploaded files
\* is waiting, and every step the run can take is a further status call.
C25_Scenario ==
    /\ pc = "delay"
    /\ Len(uploadedFiles) = 2
    /\ i = 1
    /\ ~ENABLED DeadlineStep

\* The items of a sequence of records, by their field file.
FileOfEntries(entries) == [k \in 1..Len(entries) |-> entries[k].file]

\* The listed items that satisfy P, in listing order.
RECURSIVE ItemsWhere(_, _)
ItemsWhere(P(_), n) ==
    IF n = 0 THEN <<>>
    ELSE ItemsWhere(P, n - 1) \o (IF P(n) THEN <<n>> ELSE <<>>)

NotUploaded(j) == ~Uploaded(j)

\* C26: requests are stateless and do not deduplicate (RunsSpec: one
\* request after another, the downstream files of the earlier ones staying).
\* The report of a request is made of its own listing and calls only:
\* results[] lists the items its own uploads returned an id for, errors[]
\* the other listed items with the error of its own failed call, and the
\* counters count them; every item it fetched and read gets its own upload
\* call, and every id returned adds a downstream file to the earlier ones.
C26_Stateless ==
    /\ created = earlier + Cardinality({j \in Items : Uploaded(j)})
    /\ Reported =>
          /\ response.totalFiles = Len(blobs)
          /\ FileOfEntries(response.results)
                 = ItemsWhere(Uploaded, Len(blobs))
          /\ FileOfEntries(response.errors)
                 = ItemsWhere(NotUploaded, Len(blobs))
          /\ \A k \in 1..Len(response.errors) :
                response.errors[k].error
                    = calls.blob[response.errors[k].file].error
          /\ response.successful = Len(response.results)
          /\ response.failed = Len(response.errors)
          /\ \A j \in Items :
                calls.blob[j].upload =
                    (IF calls.blob[j].fetchOk /\ calls.blob[j].bodyRead
                     THEN 1 ELSE 0)

\* Witness of C26: a request that started when an earlier one had already
\* created a downstream file has uploaded both listed items again: the
\* service holds three files.
C26_Witness ==
    /\ Reported
    /\ earlier = 1
    /\ Len(blobs) = 2
    /\ Uploaded(1) /\ Uploaded(2)
    /\ created = 3

\* The file types README.md lists by extension as supported.
ListedExtensions == {"md", "markdown", "txt", "json", "html"}

\* C27: a file whose extension is none of .md, .markdown, .txt, .json,
\* .html is treated as plain text when uploaded: its body is read as text
\* and sent with the content type text/plain.
C27_OtherAsPlainText ==
    \A j \in Items :
        ( /\ Classified(j)
          /\ ~(HasExtension(pathnames[j])
                 /\ Extension(pathnames[j]) \in ListedExtensions) )
        => /\ calls.blob[j].contentType = "text/plain"
           /\ calls.blob[j].transfer = "text"

\* The case C27 fails in: a file of an extension that is not listed is read
\* as binary and sent as application/octet-stream.
C27_Scenario ==
    /\ Len(blobs) = 1
    /\ pathnames[1] = <<"docs", "/", "notes", ".", "bak">>
    /\ Classified(1)
    /\ calls.blob[1].contentType = "application/octet-stream"
    /\ calls.blob[1].transfer = "binary"

\* The index in uploadedFiles of the file the latest status response is of:
\* the current one while its delay or add-to-collection call is pending, the
\* previous one once the loop has moved on.
LastChecked == IF pc \in {"delay", "assoc"} THEN i ELSE i - 1

\* A content is a string that holds a character other than white space.
NonBlank(content) ==
    /\ content.type = "string"
    /\ \E k \in 1..Len(content.text) : content.text[k] # " "

\* C28: a status response that was read marks the file ready if and only if
\* its status is "completed" and its content is a string that is not empty
\* after trimming; a ready file goes on to the add-to-collection call; a
\* response that is not ready has used up one of the 6 attempts: before the
\* 6th the loop waits for the next attempt with that many attempts counted,
\* at the 6th the file is given up without an add-to-collection call.
C28_Ready ==
    calls.lastStatus.kind = "body" =>
        LET out == calls.lastStatus
            b == uploadedFiles[LastChecked].pathname
        IN  /\ calls.blob[b].ready
                   <=> (out.status = "completed" /\ NonBlank(out.content))
            /\ calls.blob[b].ready => (pc = "assoc" /\ fileReady)
            /\ ~calls.blob[b].ready =>
                  /\ calls.blob[b].status \in 1..6
                  /\ calls.blob[b].assoc = 0
                  /\ IF calls.blob[b].status < 6
                     THEN /\ pc = "delay"
                          /\ ~fileReady
                          /\ attempts = calls.blob[b].status
                     ELSE LastChecked = i - 1

\* Witness of C28: a completed record whose content is white space only was
\* not taken for ready, and the first attempt is used up.
C28_Witness ==
    /\ pc = "delay"
    /\ calls.lastStatus.status = "completed"
    /\ calls.lastStatus.content = [type |-> "string", text |-> <<" ", " ">>]
    /\ attempts = 1
    /\ ~fileReady

\* A second case of C28: a record with content whose status is not
\* "completed" was the 6th response of a file, which was given up.
C28_Pending ==
    /\ pc = "done"
    /\ Reported
    /\ calls.lastStatus.status = "pending"
    /\ NonBlank(calls.lastStatus.content)
    /\ calls.blob[uploadedFiles[LastChecked].pathname].status = 6
    /\ ~calls.blob[uploadedFiles[LastChecked].pathname].ready

\* The status loop is running for item j.
Polling(j) ==
    /\ pc \in {"poll", "delay", "assoc"}
    /\ i \in 1..Len(uploadedFiles)
    /\ uploadedFiles[i].pathname = j

\* C29: an inter-attempt delay is waited only after a status check that
\* reported not-ready with fewer than 6 attempts made.  While a delay is
\* pending the latest check of the file was read, was not ready and was not
\* the 6th; the delays an item has had are one per status check but the
\* last, plus one for the last if it was read, not ready, not the 6th, and
\* its delay is over: none after a ready check, a failed status call or the
\* 6th attempt, hence at most 5 per item.
C29_Delays ==
    /\ pc = "delay" =>
          /\ attempts < 6
          /\ ~fileReady
          /\ ~calls.blob[uploadedFiles[i].pathname].ready
          /\ calls.blob[uploadedFiles[i].pathname].statusFailedAt = 0
          /\ calls.blob[uploadedFiles[i].pathname].status = attempts
    /\ \A j \in Items :
          LET c == calls.blob[j]
              followed ==
                  /\ ~c.ready
                  /\ c.statusFailedAt = 0
                  /\ c.status < 6
                  /\ ~(Polling(j) /\ pc = "delay")
          IN  /\ c.delays <= 5
              /\ c.delays =
                    (IF c.status = 0 THEN 0
                     ELSE c.status - 1 + (IF followed THEN 1 ELSE 0))

\* Witness of C29: the report of a run in which the first file was ready at
\* its 2nd check (1 delay), and the second was given up after 6 checks
\* (5 delays, none after the 6th).
C29_Witness ==
    /\ Reported
    /\ Len(blobs) = 2
    /\ calls.blob[1].ready /\ calls.blob[1].status = 2
    /\ calls.blob[1].delays = 1
    /\ ~calls.blob[2].ready /\ calls.blob[2].status = 6
    /\ calls.blob[2].delays = 5

\* A second case of C29: the 3rd status call of a file failed; two delays
\* were waited, none after the failure.
C29_AfterFailure ==
    /\ Reported
    /\ Len(blobs) = 1
    /\ calls.blob[1].statusFailedAt = 3
    /\ calls.blob[1].delays = 2

\* C30: at most one upload call is issued per listed item: an item whose
\* upload failed (the call threw, or answered without an id) has had exactly
\* one upload call and no id; in a report every entry of results[] is of an
\* item with exactly one upload call, which returned an id, and successful
\* is the number of such items.
C30_OneUpload ==
    /\ \A j \in Items :
          /\ calls.blob[j].upload <= 1
          /\ calls.blob[j].uploadOutcome \in {"throw", "noId"} =>
                /\ calls.blob[j].upload = 1
                /\ ~Uploaded(j)
          /\ (calls.blob[j].upload = 0) = (calls.blob[j].uploadOutcome = "none")
    /\ Reported =>
          /\ \A k \in 1..Len(response.results) :
                /\ response.results[k].file \in Items
                /\ calls.blob[response.results[k].file].upload = 1
                /\ calls.blob[response.results[k].file].uploadOutcome = "id"
          /\ response.successful =
                Cardinality({j \in Items :
                    /\ calls.blob[j].upload = 1
                    /\ calls.blob[j].uploadOutcome = "id"})

\* Witness of C30: the report of a run over two items, the upload of the
\* first having failed and that of the second having returned an id, one
\* upload call each.
C30_Witness ==
    /\ Reported
    /\ Len(blobs) = 2
    /\ calls.blob[1].uploadOutcome = "throw"
    /\ calls.blob[1].upload = 1
    /\ calls.blob[2].uploadOutcome = "id"
    /\ calls.blob[2].upload = 1
    /\ response.successful = 1
    /\ response.failed = 1

\* The pieces of a pathname that follow its last dot (a pathname that holds
\* a dot).
AfterLastDot(path) ==
    LET k == CHOOSE m \in 1..Len(path) :
                /\ path[m] = "."
                /\ \A q \in (m + 1)..Len(path) : path[q] # "."
    IN  SubSeq(path, k + 1, Len(path))

\* Word w spells key k, in whatever letter case.
Spells(w, k) ==
    \/ w = k
    \/ <<w, k>> \in {<<"MD", "md">>, <<"Pdf", "pdf">>, <<"JPG", "jpg">>,
                     <<"Txt", "txt">>}

\* The extension table: MIME type and transfer of every key.
TableMime(k) ==
    CASE k \in {"md", "markdown"} -> "text/markdown"
      [] k = "txt" -> "text/plain"
      [] k = "json" -> "application/json"
      [] k = "html" -> "text/html"
      [] k = "pdf" -> "application/pdf"
      [] k \in {"doc", "docx"} ->
           "application/vnd.openxmlformats-officedocument.wordprocessingml.document"
      [] k \in {"xls", "xlsx"} ->
           "application/vnd.openxmlformats-officedocument.spreadsheetml.sheet"
      [] k \in {"ppt", "pptx"} ->
           "application/vnd.openxmlformats-officedocument.presentationml.presentation"
      [] k \in {"jpg", "jpeg"} -> "image/jpeg"
      [] k = "png" -> "image/png"
      [] k = "gif" -> "image/gif"

TableTransfer(k) ==
    IF k \in {"md", "markdown", "txt", "json", "html"}
    THEN "text" ELSE "binary"

C31_LastSuffix ==
    /\ Len(blobs) = 1
    /\ pathnames[1] = <<"README", ".", "bak", ".", "md">>
    /\ Classified(1)
    /\ calls.blob[1].contentType = "text/markdown"
    /\ calls.blob[1].transfer = "text"

\* Result lists a and b have the same entries but for collectionStatus.
SameButCollectionStatus(a, b) ==
    /\ Len(a) = Len(b)
    /\ \A k \in 1..Len(a) :
          [a[k] EXCEPT !.collectionStatus = "null"]
              = [b[k] EXCEPT !.collectionStatus = "null"]

\* A step taken once the upload loop is over leaves the work of the upload
\* loop as it is.
FrameStep ==
    pc \in {"phase2", "settle", "poll", "delay", "assoc"} =>
        /\ uploadResults' = uploadResults
        /\ uploadErrors' = uploadErrors
        /\ SameButCollectionStatus(finalResults', uploadResults)
        /\ pc' = "done" =>
              /\ response'.results = finalResults'
              /\ response'.errors = uploadErrors

\* C32: every step taken once the upload loop is over (the copy to
\* finalResults, the delays, the status and add-to-collection calls, the
\* summary) leaves uploadResults and uploadErrors as they are and yields a
\* finalResults with as many entries as uploadResults, each equal to its
\* entry of uploadResults in file, status, openWebUIId, size and uploadedAt;
\* the report returns that finalResults and the errors of the upload loop.
C32_Frame == [][FrameStep]_vars

\* Witness of C32: of two items the first failed to upload and the second
\* was added to the collection; the report holds the one error of phase 1
\* and the one entry of phase 1, with its collectionStatus set.
C32_Witness ==
    /\ Reported
    /\ Len(blobs) = 2
    /\ response.errors = <<[file |-> 1, error |-> "upload failed"]>>
    /\ Len(response.results) = 1
    /\ response.results[1].collectionStatus = "added"
    /\ uploadResults[1].collectionStatus = "null"
    /\ response.results[1].size = ListedSize(2)
    /\ response.results[1].uploadedAt = ListedUploadedAt(2)
    /\ response.results[1].openWebUIId = calls.blob[2].uploadId

\* C33: no entry ever carries the collectionStatus "error"; and in the
\* report of a run with a collection id whose uploads returned pairwise
\* distinct ids every entry carries "added" (its file was ready and the
\* add-to-collection call succeeded), "collection-failed" (ready, the call
\* failed) or "not-processed" (not ready: given up after 6 checks, or a
\* status call failed): none is left at null.
C33_FinalStatus ==
    /\ \A k \in 1..Len(finalResults) :
          finalResults[k].collectionStatus # "error"
    /\ (Reported /\ hasCollection /\ DistinctIds) =>
          \A k \in 1..Len(response.results) :
              LET c == calls.blob[response.results[k].file]
              IN  /\ response.results[k].collectionStatus
                         \in {"added", "not-processed", "collection-failed"}
                  /\ response.results[k].collectionStatus =
                         (IF ~c.ready THEN "not-processed"
                          ELSE IF c.assocOk THEN "added"
                          ELSE "collection-failed")

\* Witness of C33: a report, with a collection id and distinct ids, of a
\* first file whose 2nd status call failed (not-processed) and a second file
\* whose add-to-collection call failed (collection-failed).
C33_Witness ==
    /\ Reported
    /\ hasCollection
    /\ DistinctIds
    /\ Len(response.results) = 2
    /\ calls.blob[1].statusFailedAt = 2
    /\ response.results[1].collectionStatus = "not-processed"
    /\ calls.blob[2].assoc = 1 /\ ~calls.blob[2].assocOk
    /\ response.results[2].collectionStatus = "collection-failed"

\* C34: the authorization check comes first.  With CRON_SECRET unset the
\* request never gets past the check, whatever its authorization header: no
\* call is issued and the answer is 401.  A request without the right
\* bearer secret is answered 401 also when required variables are missing,
\* and the 500 answer for missing variables is given to authorized requests
\* only.
C34_AuthFirst ==
    LET wrong == cronSecret = NoValue \/ authHeader # "Bearer " \o cronSecret
        missing == ~hasBlobToken \/ ~hasBaseUrl \/ ~hasApiKey
    IN  /\ cronSecret = NoValue =>
              /\ pc \in {"start", "done"}
              /\ calls = NoHistory
              /\ pc = "done" => response.status = 401
        /\ (wrong /\ missing /\ pc = "done") =>
              /\ response.status = 401
              /\ response.error = "Unauthorized"
        /\ (pc = "done" /\ response.status = 500 /\ calls.list = 0) =>
              (~wrong /\ missing)

\* Witness of C34: with CRON_SECRET unset and a required variable missing, a
\* request whose header reads "Bearer " followed by the text of the unset
\* value was answered 401.
C34_Witness ==
    /\ cronSecret = NoValue
    /\ authHeader = "Bearer " \o NoValue
    /\ ~hasApiKey
    /\ pc = "done"
    /\ response.status = 401

\* A second case of C34: an authorized request with a variable missing got
\* the 500 configuration error.
C34_Authorized ==
    /\ cronSecret = "s1"
    /\ authHeader = "Bearer s1"
    /\ ~hasBaseUrl
    /\ pc = "done"
    /\ response.status = 500
    /\ response.error = "Missing required environment variables"

\* C36: an item one of whose status responses could not be read (no body,
\* or a content that is no string) on attempt k is handled like one whose
\* status call failed: it had exactly k status calls, ends with
\* collectionStatus 'not-processed', has no add-to-collection call, and the
\* other uploaded items were still polled.
C36_Unreadable ==
    Reported =>
        \A j \in Items :
            calls.blob[j].statusError = "unreadable" =>
                /\ calls.blob[j].statusFailedAt \in 1..6
                /\ calls.blob[j].status = calls.blob[j].statusFailedAt
                /\ StatusOf(j) = "not-processed"
                /\ calls.blob[j].assoc = 0
                /\ AllPolled

\* C36 in the runs whose uploads returned pairwise distinct ids: for them
\* the claim holds.
C36_UnreadableDistinctIds == DistinctIds => C36_Unreadable

\* The case C36 fails in: both uploads returned the same id, the first file
\* was added, the first status response of the second could not be read, and
\* the report gives the first "not-processed" and leaves the second at null.
C36_Scenario ==
    /\ Reported
    /\ Len(response.results) = 2
    /\ calls.blob[1].uploadId = calls.blob[2].uploadId
    /\ calls.blob[1].assocOk
    /\ calls.blob[2].statusError = "unreadable"
    /\ calls.blob[2].statusFailedAt = 1
    /\ response.results[1].collectionStatus = "not-processed"
    /\ response.results[2].collectionStatus = "null"

\* The case of C36 with distinct ids: the 2nd status response of the first
\* file could not be read; it ends not-processed after 2 status calls and
\* the second file was polled and added.
C36_DistinctIdsScenario ==
    /\ Reported
    /\ DistinctIds
    /\ Len(response.results) = 2
    /\ calls.blob[1].statusError = "unreadable"
    /\ calls.blob[1].status = 2
    /\ response.results[1].collectionStatus = "not-processed"
    /\ response.results[2].collectionStatus = "added"

\* ----------------------------------------------------- two concurrent calls

\* The blobs the listings of two concurrent calls hold together, at most.
MaxConcurrentBlobs == 2

\* The locals of the call of POST that is executing, as a record.
Locals ==
    [pc |-> pc, authHeader |-> authHeader, blobs |-> blobs,
     pathnames |-> pathnames, bi |-> bi, uploadResults |-> uploadResults,
     finalResults |-> finalResults, uploadErrors |-> uploadErrors,
     uploadedFiles |-> uploadedFiles, i |-> i, attempts |-> attempts,
     fileReady |-> fileReady, response |-> response, calls |-> calls]

\* Mutant of Switch: uploadResults is module-level, so a call that resumes
\* finds the array as the other call left it.
SwitchSharesResults ==
    /\ other.pc \notin {"none", "done"}
    /\ pc' = other.pc
    /\ authHeader' = other.authHeader
    /\ blobs' = other.blobs
    /\ pathnames' = other.pathnames
    /\ bi' = other.bi
    /\ finalResults' = other.finalResults
    /\ uploadErrors' = other.uploadErrors
    /\ uploadedFiles' = other.uploadedFiles
    /\ i' = other.i
    /\ attempts' = other.attempts
    /\ fileReady' = other.fileReady
    /\ response' = other.response
    /\ calls' = other.calls
    /\ other' = Locals
    /\ UNCHANGED <<cfgVars, created, earlier, uploadResults>>

\* The executing call is suspended at an await (or has returned) and the
\* other call of POST, which has not returned yet, runs on: everything a call reads and writes between
\* its entry and its response is a local of the call (requestId, logger,
\* uploadResults, uploadErrors, uploadedFiles, finalResults, the loop
\* variables), so the two calls exchange all of it; the environment
\* variables and the downstream service are the same for both.
Switch ==
    /\ other.pc \notin {"none", "done"}
    /\ pc' = other.pc
    /\ authHeader' = other.authHeader
    /\ blobs' = other.blobs
    /\ pathnames' = other.pathnames
    /\ bi' = other.bi
    /\ uploadResults' = other.uploadResults
    /\ finalResults' = other.finalResults
    /\ uploadErrors' = other.uploadErrors
    /\ uploadedFiles' = other.uploadedFiles
    /\ i' = other.i
    /\ attempts' = other.attempts
    /\ fileReady' = other.fileReady
    /\ response' = other.response
    /\ calls' = other.calls
    /\ other' = Locals
    /\ UNCHANGED <<cfgVars, created, earlier>>

\* A second request has arrived while the first is at its entry.
ConcurrentInit ==
    /\ pc = "start"
    /\ cronSecret \in CronSecrets
    /\ authHeader \in AuthHeaders
    /\ hasBlobToken \in BOOLEAN
    /\ hasBaseUrl \in BOOLEAN
    /\ hasApiKey \in BOOLEAN
    /\ hasCollection \in BOOLEAN
    /\ blobs = <<>>
    /\ bi = 0
    /\ uploadResults = <<>>
    /\ finalResults = <<>>
    /\ uploadErrors = <<>>
    /\ uploadedFiles = <<>>
    /\ i = 0
    /\ attempts = 0
    /\ fileReady = FALSE
    /\ response = NoResponse
    /\ calls = NoHistory
    /\ pathnames = <<>>
    /\ created = 0
    /\ earlier = 0
    /\ other \in {NewCall(header) : header \in AuthHeaders}

\* A step of the executing call, the two listings within the bound.
CallStep ==
    /\ Next
    /\ Len(blobs') + Len(other.blobs) <= MaxConcurrentBlobs

ConcurrentNext ==
    \/ CallStep
    \/ Switch

ConcurrentSpec == ConcurrentInit /\ [][ConcurrentNext]_vars

\* --------------------------------------------------------------------- C35

\* The report of the call with locals r is made of the call's own listing
\* and the call's own uploads: totalFiles is the length of its listing, the
\* counters add up to it, results[] lists the items of the listing whose
\* upload (by this call) returned an id, with that id, and errors[] lists
\* the other items of the listing.
OwnReport(r) ==
    r.response.status = 200 =>
        LET n == Len(r.blobs)
            OwnUploaded(j) == r.calls.blob[j].uploadId # NoId
            OwnFailed(j) == r.calls.blob[j].uploadId = NoId
        IN  /\ r.response.totalFiles = n
            /\ r.response.successful + r.response.failed
                   = r.response.totalFiles
            /\ FileOfEntries(r.response.results) = ItemsWhere(OwnUploaded, n)
            /\ FileOfEntries(r.response.errors) = ItemsWhere(OwnFailed, n)
            /\ \A k \in 1..Len(r.response.results) :
                   r.response.results[k].openWebUIId
                       = r.calls.blob[r.response.results[k].file].uploadId

\* C35: two POST calls that run concurrently, interleaved in any way at
\* their suspension points (ConcurrentSpec), share no mutable state: the
\* report of each call has entries for the items of its own listing only
\* and satisfies successful + failed = totalFiles, whatever the other call
\* did in between.
C35_Concurrent ==
    /\ OwnReport(Locals)
    /\ OwnReport(other)

\* Both calls were in the middle of their work at the same time, each with
\* an uploaded item, and one of them has reported since while the other is
\* still polling.
C35_Witness ==
    /\ Reported
    /\ Len(response.results) = 1
    /\ other.pc = "poll"
    /\ Len(other.uploadResults) = 1
    /\ other.attempts > 0

\* Both calls have reported, one on a listing of two items and the other on
\* an empty listing.
C35_BothReported ==
    /\ Reported
    /\ other.response.status = 200
    /\ Len(blobs) = 2
    /\ Len(other.blobs) = 0

====
